---- MODULE Spec2Model ----
(***************************************************************************)
(* Model of the TSTemplateBot command core: the command objects            *)
(* (core/Command.ts and commands/*.ts), the CommandManager registry        *)
(* (core/CommandManager.ts) and the Bot's InteractionCreate handler        *)
(* (core/Bot.ts).                                                          *)
(***************************************************************************)
EXTENDS Integers, Sequences, FiniteSets, TLC

VARIABLES
    input,         \* the Command[] handed to the CommandManager constructor
    built,         \* TRUE once the CommandManager constructor has returned
    commands,      \* CommandManager.commands
    commandMap,    \* CommandManager.commandMap (name -> Command)
    developerIds,  \* Environment.getConfig().developerIds
    probe,         \* the last registry query and what it returned
    ix,            \* the in-flight interactions: slot -> handler state
    allCommands,   \* the ALL_COMMANDS array of commands/index.ts
    processEnv,    \* process.env: the variables Environment reads
    proc           \* the entry point being run (index.ts or register.ts)

vars ==
    <<input, built, commands, commandMap, developerIds, probe, ix,
      allCommands, processEnv, proc>>

----------------------------------------------------------------------------
(* Bounds *)

\* longest command list handed to the CommandManager in SpecRegistry
MaxCommands == 3
\* interactions whose handlers are in flight at the same time
MaxInFlight == 1
\* length of the longest ALL_COMMANDS array the help command is run on
MaxArray == 26
MaxConcurrent == 2

----------------------------------------------------------------------------
(* Command objects *)

\* undefined / null where an object is expected, and where a string is
Undefined == [undefined |-> TRUE]

None == "<none>"

\* Command base class defaults: requiredPermissions = [], guildOnly = false,
\* developerOnly = false.  class and inst give the object its identity.
Command(class, inst, name, category) ==
    [class |-> class, inst |-> inst, name |-> name, helpName |-> name,
     category |-> category, guildOnly |-> FALSE,
     requiredPermissions |-> <<>>, developerOnly |-> FALSE]

PingCommand(inst) == Command("PingCommand", inst, "ping", "Utility")

InfoCommand(inst) == Command("InfoCommand", inst, "info", "Utility")

ExampleCommand(inst) ==
    [Command("ExampleCommand", inst, "example", "Example")
        EXCEPT !.requiredPermissions = <<"SendMessages">>, !.guildOnly = TRUE]

HelpCommand(inst) == Command("HelpCommand", inst, "help", "Utility")

\* a DevCommand whose builder is given the name of the help command
DevCommandNamedHelp(inst) ==
    [Command("DevCommand", inst, "help", "Developer") EXCEPT !.developerOnly = TRUE]

DevCommand(inst) ==
    [Command("DevCommand", inst, "dev", "Developer") EXCEPT !.developerOnly = TRUE]

\* A command added by the template's user: it sets requiredPermissions,
\* leaves guildOnly and developerOnly at the base-class defaults, and has an
\* execute of its own (the abstract method)
UserCommand(inst) ==
    [Command("UserCommand", inst, "mycommand", "Custom")
        EXCEPT !.requiredPermissions = <<"ManageMessages">>]

ALL_COMMANDS ==
    <<PingCommand(1), InfoCommand(1), ExampleCommand(1), HelpCommand(1), DevCommand(1)>>

getName(c) == c.name

----------------------------------------------------------------------------
(* CommandManager *)

\* Map.prototype.set: the value of an existing key is overwritten
MapSet(m, k, v) == [n \in (DOMAIN m) \cup {k} |-> IF n = k THEN v ELSE m[n]]

EmptyMap == [n \in {} |-> Undefined]

RECURSIVE LoadFrom(_, _, _)
LoadFrom(cmds, m, k) ==
    IF k > Len(cmds) THEN m
    ELSE LoadFrom(cmds, MapSet(m, getName(cmds[k]), cmds[k]), k + 1)

\* loadCommands: commandMap.set(command.getName(), command) for each command
loadCommands(cmds) == LoadFrom(cmds, EmptyMap, 1)

\* getCommand: commandMap.get(name)
getCommandIn(m, name) == IF name \in DOMAIN m THEN m[name] ELSE Undefined

getCommand(name) == getCommandIn(commandMap, name)

getAllCommands == commands

\* new CommandManager(commands): stores the list and loads the map; no
\* statement of the constructor or of loadCommands throws
CommandManagerNew ==
    /\ ~built
    /\ built' = TRUE
    /\ commands' = input
    /\ commandMap' = loadCommands(input)
    /\ probe' = [op |-> "new", arg |-> Undefined, result |-> Undefined]
    /\ UNCHANGED <<input, developerIds, ix, allCommands, processEnv, proc>>

\* command.getRegistrationData() is this.data.toJSON(): the builder's
\* name and options; toJSON throws on a builder whose name was never set
dataOptions(c) ==
    CASE c.class = "ExampleCommand" -> <<"user", "server">>
      [] c.class = "DevCommand" -> <<"info", "test">>
      [] c.class = "HelpCommand" -> <<"command">>
      [] OTHER -> <<>>

toJSON(c) == [name |-> getName(c), options |-> dataOptions(c)]

toJSONThrows(c) == getName(c) = None

\* the payloads in the reverse of the registration order
registrationDataReversed(cmds) ==
    [k \in 1..Len(cmds) |-> toJSON(cmds[Len(cmds) + 1 - k])]

\* this.commands.map(command => command.getRegistrationData())
registrationDataOf(cmds) == [k \in 1..Len(cmds) |-> toJSON(cmds[k])]

getRegistrationData == registrationDataOf(commands)

getHelpInfo(c) == [name |-> c.helpName, category |-> c.category]

\* The loop of getCommandsByCategory (and of showAllCommandsHelp): a Map in
\* insertion order, as the sequence of its entries
RECURSIVE GroupFrom(_, _, _)
GroupFrom(cmds, categories, k) ==
    IF k > Len(cmds) THEN categories
    ELSE LET category == getHelpInfo(cmds[k]).category
             has == \E j \in 1..Len(categories) : categories[j].category = category
             at == CHOOSE j \in 1..Len(categories) : categories[j].category = category
         IN GroupFrom(cmds,
                      IF has
                      THEN [categories EXCEPT ![at].commands = Append(@, cmds[k])]
                      ELSE Append(categories,
                                  [category |-> category, commands |-> <<cmds[k]>>]),
                      k + 1)

\* the grouping with the categories in the reverse of their insertion order
groupNewestFirst(cmds) ==
    LET g == GroupFrom(cmds, <<>>, 1) IN [k \in 1..Len(g) |-> g[Len(g) + 1 - k]]

groupByCategory(cmds) == GroupFrom(cmds, <<>>, 1)

getCommandsByCategory == groupByCategory(commands)

\* getCommandHelp(commandName): the help info of the command the map holds
\* for the name, or null
getCommandHelp(commandName) ==
    IF getCommand(commandName) # Undefined
    THEN getHelpInfo(getCommand(commandName))
    ELSE Undefined

----------------------------------------------------------------------------
(* HelpCommand: showSpecificCommandHelp, showAllCommandsHelp, autocomplete.
   All three read the ALL_COMMANDS array. *)

\* Array.prototype.find: the first element that satisfies the test
find(cmds, name) ==
    IF \E k \in 1..Len(cmds) : getName(cmds[k]) = name
    THEN cmds[CHOOSE k \in 1..Len(cmds) :
                 /\ getName(cmds[k]) = name
                 /\ \A j \in 1..(k - 1) : getName(cmds[j]) # name]
    ELSE Undefined

\* showSpecificCommandHelp(commandName): the command it describes, or
\* undefined where it answers "not found"
showSpecificCommandHelp(commandName) == find(allCommands, commandName)

\* showAllCommandsHelp: one embed field per category, listing its commands
showAllCommandsHelp == groupByCategory(allCommands)

\* The letters of the command names; a name not listed is one character
Spelling ==
    [ping |-> <<"p", "i", "n", "g">>,
     info |-> <<"i", "n", "f", "o">>,
     example |-> <<"e", "x", "a", "m", "p", "l", "e">>,
     help |-> <<"h", "e", "l", "p">>,
     dev |-> <<"d", "e", "v">>,
     mycommand |-> <<"m", "y", "c", "o", "m", "m", "a", "n", "d">>]

Chars(name) == IF name \in DOMAIN Spelling THEN Spelling[name] ELSE <<name>>

UpperCase == [P |-> "p", I |-> "i", E |-> "e", H |-> "h", A |-> "a"]

toLowerCase(s) ==
    [k \in 1..Len(s) |-> IF s[k] \in DOMAIN UpperCase THEN UpperCase[s[k]] ELSE s[k]]

startsWith(s, prefix) ==
    Len(prefix) <= Len(s) /\ SubSeq(s, 1, Len(prefix)) = prefix

\* slice(0, 25)
DiscordLimit == 25

slice(s, n) == IF Len(s) <= n THEN s ELSE SubSeq(s, 1, n)

\* the filter with the typed text compared as it was typed
matchesAsTyped(c, focusedValue) == startsWith(Chars(getName(c)), focusedValue)

\* cmd.getName().startsWith(focusedValue.toLowerCase())
matches(c, focusedValue) == startsWith(Chars(getName(c)), toLowerCase(focusedValue))

\* autocomplete: filter, slice, then map to the choice's value
autocomplete(focusedValue) ==
    LET test(c) == matches(c, focusedValue)
        chosen == slice(SelectSeq(allCommands, test), DiscordLimit)
    IN [k \in 1..Len(chosen) |-> [value |-> getName(chosen[k])]]

----------------------------------------------------------------------------
(* Command.validate *)

Users == {"alice", "bob"}

\* The execution environments an interaction can come from: a DM (no
\* guild), or a guild whose member cache may or may not hold the bot's
\* member entry, with the permissions the bot has there
Envs ==
    {[guild |-> FALSE, botCached |-> FALSE, granted |-> {}]} \cup
    {[guild |-> TRUE, botCached |-> b, granted |-> g] :
        b \in BOOLEAN,
        g \in {{}, {"SendMessages"}, {"ManageMessages"},
               {"SendMessages", "ManageMessages", "KickMembers"}}}

\* botMember?.permissions.has(perms): false without a member entry, else
\* whether every listed permission is held
BotHasPermissions(r, perms) ==
    r.botCached /\ \A k \in 1..Len(perms) : perms[k] \in r.granted

\* validate without its guild-only check
GuildCheckSkipped(c, r) == FALSE

\* this.guildOnly && !interaction.guild
GuildCheckFails(c, r) == c.guildOnly /\ ~r.guild

\* the check with its condition on has() inverted
PermissionCheckInverted(c, r) ==
    /\ Len(c.requiredPermissions) > 0
    /\ r.guild
    /\ BotHasPermissions(r, c.requiredPermissions)

\* this.requiredPermissions.length > 0 && interaction.guild
\*   && !botMember?.permissions.has(this.requiredPermissions)
PermissionCheckFails(c, r) ==
    /\ Len(c.requiredPermissions) > 0
    /\ r.guild
    /\ ~BotHasPermissions(r, c.requiredPermissions)

\* this.developerOnly && !config.developerIds.includes(interaction.user.id)
DeveloperCheckFails(c, r, ids) ==
    c.developerOnly /\ ~(\E k \in 1..Len(ids) : ids[k] = r.user)

Valid == [valid |-> TRUE, reason |-> None, perms |-> <<>>]

GuildOnlyReason == "This command can only be used in servers."

\* `Bot missing required permissions: ${requiredPermissions.join(', ')}`:
\* perms carries the joined list
PermissionReason == "Bot missing required permissions"

DeveloperOnlyReason == "This command is for developers only."

Invalid(reason, perms) == [valid |-> FALSE, reason |-> reason, perms |-> perms]

\* validate with the developer check moved to the front
validateDeveloperFirst(c, r, ids) ==
    IF DeveloperCheckFails(c, r, ids) THEN Invalid(DeveloperOnlyReason, <<>>)
    ELSE IF GuildCheckFails(c, r) THEN Invalid(GuildOnlyReason, <<>>)
    ELSE IF PermissionCheckFails(c, r)
         THEN Invalid(PermissionReason, c.requiredPermissions)
    ELSE Valid

validate(c, r, ids) ==
    IF GuildCheckFails(c, r) THEN Invalid(GuildOnlyReason, <<>>)
    ELSE IF PermissionCheckFails(c, r)
         THEN Invalid(PermissionReason, c.requiredPermissions)
    ELSE IF DeveloperCheckFails(c, r, ids) THEN Invalid(DeveloperOnlyReason, <<>>)
    ELSE Valid

----------------------------------------------------------------------------
(* services/Environment.ts.  A DISCORD_TOKEN or an ID is a name standing for
   a string of the shape given in the tables below; the value of
   DEVELOPER_IDS is the sequence of its lexical pieces: IDs, "," and " ".
   An unset variable is None. *)

TokenShape ==
    [tok_good  |-> [length |-> 72, dot |-> TRUE,  botPrefix |-> FALSE],
     tok_bot   |-> [length |-> 64, dot |-> FALSE, botPrefix |-> TRUE],
     tok_short |-> [length |-> 50, dot |-> TRUE,  botPrefix |-> FALSE],
     tok_nodot |-> [length |-> 72, dot |-> FALSE, botPrefix |-> FALSE]]

IdShape ==
    [alice  |-> [length |-> 18, digitsOnly |-> TRUE],
     bob    |-> [length |-> 17, digitsOnly |-> TRUE],
     app    |-> [length |-> 20, digitsOnly |-> TRUE],
     short  |-> [length |-> 16, digitsOnly |-> TRUE],
     bogus  |-> [length |-> 18, digitsOnly |-> FALSE]]

\* token.length > 50 && (token.includes('.') || token.startsWith('Bot '))
isValidDiscordToken(token) ==
    /\ token \in DOMAIN TokenShape
    /\ TokenShape[token].length > 50
    /\ (TokenShape[token].dot \/ TokenShape[token].botPrefix)

\* /^\d{17,20}$/.test(id)
isValidDiscordId(id) ==
    /\ id \in DOMAIN IdShape
    /\ IdShape[id].digitsOnly
    /\ IdShape[id].length >= 17
    /\ IdShape[id].length <= 20

\* String.prototype.split(','): "" splits into one empty piece
RECURSIVE SplitFrom(_, _)
SplitFrom(s, piece) ==
    IF s = <<>> THEN <<piece>>
    ELSE IF Head(s) = "," THEN <<piece>> \o SplitFrom(Tail(s), <<>>)
    ELSE SplitFrom(Tail(s), Append(piece, Head(s)))

split(s) == SplitFrom(s, <<>>)

RECURSIVE trimStart(_)
trimStart(s) == IF s # <<>> /\ Head(s) = " " THEN trimStart(Tail(s)) ELSE s

RECURSIVE trimEnd(_)
trimEnd(s) ==
    IF s # <<>> /\ s[Len(s)] = " " THEN trimEnd(SubSeq(s, 1, Len(s) - 1)) ELSE s

\* String.prototype.trim, giving the string the piece spells: "" for an
\* empty piece, the ID for a piece that is one ID
trim(s) ==
    LET p == trimEnd(trimStart(s)) IN
    IF p = <<>> THEN "" ELSE IF Len(p) = 1 THEN p[1] ELSE p

\* .split(',').map(id => id.trim())
splitAndTrim(v) == [k \in 1..Len(split(v)) |-> trim(split(v)[k])]

\* the list with its empty strings kept
keepEntries(ids) == ids

\* .filter(Boolean): the empty strings are dropped
filterBoolean(ids) ==
    LET nonEmpty(id) == id # "" IN SelectSeq(ids, nonEmpty)

\* process.env[name], None where the variable is unset
Get(env, name) == IF name \in DOMAIN env THEN env[name] ELSE None

\* process.env.DEVELOPER_IDS?.split(',').map(id => id.trim()).filter(Boolean):
\* undefined (defined = FALSE) for an unset variable
optionalDeveloperIds(env) ==
    IF "DEVELOPER_IDS" \in DOMAIN env
    THEN [defined |-> TRUE, value |-> filterBoolean(splitAndTrim(env.DEVELOPER_IDS))]
    ELSE [defined |-> FALSE, value |-> <<>>]

REQUIRED_VARS == <<"DISCORD_TOKEN", "DISCORD_CLIENT_ID">>

\* NODE_ENV: 'production', DEVELOPER_IDS: ''
OPTIONAL_VARS == [NODE_ENV |-> "production", DEVELOPER_IDS |-> <<>>]

\* !process.env[name]: the variable is unset or the empty string
Falsy(env, name) ==
    \/ name \notin DOMAIN env
    \/ env[name] = IF name = "DEVELOPER_IDS" THEN <<>> ELSE ""

\* if (!process.env[varName]) process.env[varName] = defaultValue
withDefaults(env) ==
    [n \in (DOMAIN env) \cup (DOMAIN OPTIONAL_VARS) |->
        IF n \in DOMAIN OPTIONAL_VARS /\ Falsy(env, n) THEN OPTIONAL_VARS[n]
        ELSE env[n]]

missingVars(env) ==
    LET unset(n) == Falsy(env, n) IN SelectSeq(REQUIRED_VARS, unset)

\* the entries pushed to invalid, in the order the code pushes them
invalidVars(env) ==
    LET ids == withDefaults(env).DEVELOPER_IDS
        devIds == IF ids = <<>> THEN <<>> ELSE splitAndTrim(ids)
        bad(id) == id # "" /\ ~isValidDiscordId(id)
    IN (IF ~Falsy(env, "DISCORD_TOKEN") /\ ~isValidDiscordToken(env.DISCORD_TOKEN)
        THEN <<"DISCORD_TOKEN (invalid format)">> ELSE <<>>)
       \o (IF ~Falsy(env, "DISCORD_CLIENT_ID") /\ ~isValidDiscordId(env.DISCORD_CLIENT_ID)
           THEN <<"DISCORD_CLIENT_ID (invalid format)">> ELSE <<>>)
       \o SelectSeq(devIds, bad)

\* Environment.validate() throwing for missing variables only
EnvironmentValidateMissingOnly(env) ==
    [env |-> withDefaults(env),
     error |-> IF missingVars(env) # <<>>
               THEN "Missing required environment variables"
               ELSE None]

\* Environment.validate(): process.env after it, and the error it throws
\* (None when it returns)
EnvironmentValidate(env) ==
    [env |-> withDefaults(env),
     error |-> IF missingVars(env) # <<>>
               THEN "Missing required environment variables"
               ELSE IF invalidVars(env) # <<>>
               THEN "Invalid environment variables"
               ELSE None]

\* developerIds of getConfig without `|| []`
developerIdsNoDefault(env) == optionalDeveloperIds(env)

\* developerIds of getConfig: `|| []` turns the undefined of the optional
\* chain into the empty list
developerIdsOf(env) ==
    IF optionalDeveloperIds(env).defined THEN optionalDeveloperIds(env)
    ELSE [defined |-> TRUE, value |-> <<>>]

getConfig(env) ==
    [discordToken |-> Get(env, "DISCORD_TOKEN"),
     discordClientId |-> Get(env, "DISCORD_CLIENT_ID"),
     nodeEnv |-> Get(env, "NODE_ENV"),
     developerIds |-> developerIdsOf(env).value]

ProcessEnv(token, clientId, nodeEnv, ids) ==
    [DISCORD_TOKEN |-> token, DISCORD_CLIENT_ID |-> clientId,
     NODE_ENV |-> nodeEnv, DEVELOPER_IDS |-> ids]

\* process.env without the variable
Unset(env, name) == [n \in (DOMAIN env) \ {name} |-> env[n]]

\* The environments a process can be started in: every variable set (the
\* token and DEVELOPER_IDS possibly to the empty string), or one left unset
DeveloperIdsValues ==
    {<<>>, <<"alice">>, <<"alice", ",", " ", "bob">>, <<",", " ", ",">>,
     <<"alice", ",">>, <<"alice", ",", "bogus">>, <<" ", "short", " ">>}

SetEnvs ==
    {ProcessEnv(t, c, "development", d) :
        t \in {"", "tok_good", "tok_bot", "tok_short", "tok_nodot"},
        c \in {"app", "bogus"},
        d \in DeveloperIdsValues}

StartEnvs ==
    SetEnvs \cup
    {Unset(e, n) : e \in SetEnvs,
                   n \in {"DISCORD_TOKEN", "DISCORD_CLIENT_ID", "DEVELOPER_IDS", "NODE_ENV"}}

----------------------------------------------------------------------------
(* Command.execute of each command: the awaited operations, in order *)

Op(op, ephemeral, content, inTry) ==
    [op |-> op, ephemeral |-> ephemeral, content |-> content, inTry |-> inTry]

\* PingCommand.execute: reply({fetchReply}), then editReply
PingExecute ==
    <<Op("reply", FALSE, "Pinging...", FALSE), Op("editReply", FALSE, "Pong!", FALSE)>>

\* InfoCommand.execute: one public embed
InfoExecute == <<Op("reply", FALSE, "Bot Information", FALSE)>>

\* HelpCommand.execute: showSpecificCommandHelp looks the name up in the
\* ALL_COMMANDS array of commands/index.ts; showAllCommandsHelp otherwise
HelpExecute(r) ==
    IF r.option # None
    THEN IF \E k \in 1..Len(allCommands) : getName(allCommands[k]) = r.option
         THEN <<Op("reply", FALSE, "Help: /command", FALSE)>>
         ELSE <<Op("reply", TRUE, "Command not found.", FALSE)>>
    ELSE <<Op("reply", FALSE, "Bot Commands", FALSE)>>

\* ExampleCommand.execute: getSubcommand() (throws without a subcommand) is
\* outside the try; the switch, with its default branch, is inside it;
\* handleServerSubcommand dereferences interaction.guild!
ExampleExecute(r) ==
    CASE r.option = None -> <<Op("throw", FALSE, "getSubcommand", FALSE)>>
      [] r.option = "user" -> <<Op("reply", FALSE, "User Information", TRUE)>>
      [] r.option = "server" ->
            IF r.guild THEN <<Op("reply", FALSE, "Server Information", TRUE)>>
            ELSE <<Op("throw", FALSE, "guild is null", TRUE)>>
      [] OTHER -> <<Op("reply", TRUE, "Unknown subcommand.", TRUE)>>

\* DevCommand.execute: the switch has the cases 'info' and 'test' only
DevExecute(r) ==
    CASE r.option = None -> <<Op("throw", FALSE, "getSubcommand", FALSE)>>
      [] r.option = "info" -> <<Op("reply", TRUE, "Development Information", FALSE)>>
      [] r.option = "test" ->
            <<Op("reply", TRUE, "Running developer test...", FALSE),
              Op("sleep", FALSE, "setTimeout", FALSE),
              Op("editReply", FALSE, "Developer test completed!", FALSE)>>
      [] OTHER -> <<>>

\* An execute written by the template's user: defers, works, edits the reply
UserExecute ==
    <<Op("deferReply", FALSE, "", FALSE), Op("editReply", FALSE, "done", FALSE)>>

Execute(c, r) ==
    CASE c.class = "PingCommand" -> PingExecute
      [] c.class = "InfoCommand" -> InfoExecute
      [] c.class = "HelpCommand" -> HelpExecute(r)
      [] c.class = "ExampleCommand" -> ExampleExecute(r)
      [] c.class = "DevCommand" -> DevExecute(r)
      [] OTHER -> UserExecute

----------------------------------------------------------------------------
(* Interactions *)

Interaction(type, commandName, env, user, option) ==
    [type |-> type, commandName |-> commandName, guild |-> env.guild,
     botCached |-> env.botCached, granted |-> env.granted, user |-> user,
     option |-> option]

\* The subcommand (example, dev) or the 'command' option (help) that can
\* arrive with a command name; "stale" is a subcommand the running code does
\* not know, "foo" a name no command has
OptionsFor(name) ==
    CASE name = "example" -> {None, "user", "server", "stale"}
      [] name = "dev" -> {None, "info", "test", "stale"}
      [] name = "help" -> {None, "ping", "foo"}
      [] OTHER -> {None}

AllPermissions == {"SendMessages", "ManageMessages", "KickMembers"}

\* The environments interactions are dispatched from: a DM, a guild without
\* the bot's member entry, and guilds where the bot holds no or every
\* permission
DispatchEnvs ==
    {e \in Envs :
        IF e.botCached THEN e.granted \in {{}, AllPermissions}
        ELSE ~e.guild \/ e.granted = AllPermissions}

DispatchNames == {"ping", "info", "example", "help", "dev", "mycommand", "foo"}

Requests ==
    UNION {{Interaction("chatInput", n, e, u, o) :
                e \in DispatchEnvs, u \in Users, o \in OptionsFor(n)} :
           n \in DispatchNames}
    \cup {Interaction("autocomplete", "help", e, u, "pi") : e \in DispatchEnvs, u \in Users}

\* What the handler of one interaction holds: where it is suspended (pc),
\* the interaction's replied / deferred flags, and everything it has
\* called, logged and sent so far (trace)
Idle ==
    [pc |-> "idle", req |-> Undefined, cmd |-> Undefined, validation |-> Undefined,
     script |-> <<>>, ip |-> 0, replied |-> FALSE, deferred |-> FALSE,
     trace |-> <<>>, exit |-> None]

\* context: the values a log entry interpolates into its message, as
\* <<key, value>> pairs; empty for what is not a log entry
Event(ev, by, ephemeral, content, ok) ==
    [ev |-> ev, by |-> by, ephemeral |-> ephemeral, content |-> content, ok |-> ok,
     context |-> <<>>]

Log(level, by, message) == Event(level, by, FALSE, message, TRUE)

\* a log entry of the handler with the values its template interpolates
LogWith(level, message, context) ==
    [Log(level, "dispatcher", message) EXCEPT !.context = context]

\* ${interaction.commandName}
CommandNameOf(s) == <<"commandName", s.req.commandName>>

\* ${interaction.user.tag}
UserOf(s) == <<"user", s.req.user>>

Call(method) == Event("call", "dispatcher", FALSE, method, TRUE)

\* reply and deferReply throw on an interaction already replied to or
\* deferred; editReply and followUp throw on one that is neither
Accepts(s, op) ==
    IF op \in {"reply", "deferReply"} THEN ~(s.replied \/ s.deferred)
    ELSE s.replied \/ s.deferred

\* The slot once an awaited send has settled: ok is whether the platform
\* call went through
Send(s, by, op, ephemeral, content, ok) ==
    LET done == ok /\ Accepts(s, op) IN
    [s EXCEPT !.trace = Append(@, Event(op, by, ephemeral, content, done)),
              !.replied = IF done /\ op # "deferReply" THEN TRUE ELSE @,
              !.deferred = IF done /\ op = "deferReply" THEN TRUE ELSE @]

ErrorMessage == "An error occurred while executing this command."

\* logger.error(`Error executing command ${interaction.commandName}:`, error)
ErrorEntry(s) == LogWith("error", "Error executing command", <<CommandNameOf(s)>>)

\* Bot.ts, catch (error): log, then await the failure notice
Catch(s) ==
    [s EXCEPT !.trace = Append(@, ErrorEntry(s)),
              !.pc = "notice"]

\* Bot.ts, after await command.execute(...): log, handler returns
Returned(s) ==
    [s EXCEPT !.trace = Append(@, LogWith("info", "Executed command",
                                          <<CommandNameOf(s), UserOf(s)>>)),
              !.pc = "done", !.exit = "executed"]

----------------------------------------------------------------------------
(* Bot.setupEventListeners: the InteractionCreate handler, one action per
   stretch of code between two awaits *)

Slots == 1..MaxInFlight

\* a handler step during which DEVELOPER_IDS of process.env may be rewritten
FrameEnvironmentWritable ==
    /\ UNCHANGED <<input, built, commands, commandMap, developerIds, probe,
                   allCommands, proc>>
    /\ processEnv' \in {processEnv, [processEnv EXCEPT !.DEVELOPER_IDS = <<"bob">>]}

\* what no step of the handler assigns: the registry, process.env and the
\* process
Frame ==
    UNCHANGED <<input, built, commands, commandMap, developerIds, probe,
                allCommands, processEnv, proc>>

\* the unknown-command branch answering the caller
UnresolvedWithReply(s) ==
    [Send(s, "dispatcher", "reply", TRUE, "Unknown command", TRUE)
        EXCEPT !.trace = Append(@, LogWith("warn", "Unknown command", <<CommandNameOf(s)>>)),
               !.pc = "done", !.exit = "unresolved"]

\* if (!command): logger.warn, return
Unresolved(s) ==
    [s EXCEPT !.trace = Append(@, LogWith("warn", "Unknown command", <<CommandNameOf(s)>>)),
              !.pc = "done", !.exit = "unresolved"]

\* The event arrives: isChatInputCommand, getCommand, then
\* await command.validate(interaction), which reads the developer IDs with
\* Environment.getConfig() from process.env at each call
InteractionCreate(i, r) ==
    /\ built
    /\ ix[i].pc = "idle"
    /\ LET s == [ix[i] EXCEPT !.req = r]
           c == getCommand(r.commandName)
       IN \/ /\ r.type # "chatInput"
             /\ ix' = [ix EXCEPT ![i] = [s EXCEPT !.pc = "done", !.exit = "ignored"]]
          \/ /\ r.type = "chatInput"
             /\ c = Undefined
             /\ ix' = [ix EXCEPT ![i] = Unresolved(s)]
          \/ /\ r.type = "chatInput"
             /\ c # Undefined
             /\ ix' = [ix EXCEPT ![i] =
                    [s EXCEPT !.cmd = c,
                              !.trace = Append(@, Call("validate")),
                              !.validation =
                                  validate(c, r, getConfig(processEnv).developerIds),
                              !.pc = "validate"]]
    /\ Frame

\* the handler calling execute whatever validate returned
ValidateReturnedUnchecked(i) ==
    /\ ix[i].pc = "validate"
    /\ LET s == ix[i]
           script == Execute(s.cmd, s.req)
           t == [s EXCEPT !.trace = Append(@, Call("execute")), !.script = script]
       IN ix' = [ix EXCEPT ![i] =
              IF script = <<>> THEN Returned(t)
              ELSE [t EXCEPT !.pc = "execute", !.ip = 1]]
    /\ Frame

\* a handler that goes on after validate only while no execute is pending
ValidateReturnedSerialized(i) ==
    /\ \A j \in DOMAIN ix : ix[j].pc # "execute"
    /\ ix[i].pc = "validate"
    /\ LET s == ix[i] IN
       \/ /\ ~s.validation.valid
          /\ ix' = [ix EXCEPT ![i] =
                 [s EXCEPT !.trace = Append(@, LogWith("warn", "Command validation failed",
                                <<CommandNameOf(s), <<"reason", s.validation.reason>>>>)),
                           !.pc = "rejectReply"]]
       \/ /\ s.validation.valid
          /\ LET script == Execute(s.cmd, s.req)
                 t == [s EXCEPT !.trace = Append(@, Call("execute")), !.script = script]
             IN ix' = [ix EXCEPT ![i] =
                    IF script = <<>> THEN Returned(t)
                    ELSE [t EXCEPT !.pc = "execute", !.ip = 1]]
    /\ Frame

\* validate has returned: reject with an ephemeral reply, or call execute
ValidateReturned(i) ==
    /\ ix[i].pc = "validate"
    /\ LET s == ix[i] IN
       \/ /\ ~s.validation.valid
          /\ ix' = [ix EXCEPT ![i] =
                 [s EXCEPT !.trace = Append(@, LogWith("warn", "Command validation failed",
                                                <<CommandNameOf(s), <<"reason", s.validation.reason>>>>)),
                           !.pc = "rejectReply"]]
       \/ /\ s.validation.valid
          /\ LET script == Execute(s.cmd, s.req)
                 t == [s EXCEPT !.trace = Append(@, Call("execute")), !.script = script]
             IN ix' = [ix EXCEPT ![i] =
                    IF script = <<>> THEN Returned(t)
                    ELSE [t EXCEPT !.pc = "execute", !.ip = 1]]
    /\ Frame

\* await interaction.reply({content: reason, ephemeral: true}) settles; the
\* call stands inside the try block
RejectReplySettled(i, ok) ==
    /\ ix[i].pc = "rejectReply"
    /\ LET s == ix[i]
           t == Send(s, "dispatcher", "reply", TRUE, s.validation.reason, ok)
       IN ix' = [ix EXCEPT ![i] =
              IF ok /\ Accepts(s, "reply")
              THEN [t EXCEPT !.pc = "done", !.exit = "rejected"]
              ELSE Catch(t)]
    /\ Frame

\* ExampleCommand.execute's own catch: Logger.error, then rethrow
Rethrown(s, o) ==
    IF o.inTry
    THEN [s EXCEPT !.trace = Append(@, Log("error", "command", "Error in example command"))]
    ELSE s

\* The awaited operation of execute settles, or execute throws by itself
ExecuteStep(i, ok) ==
    /\ ix[i].pc = "execute"
    /\ LET s == ix[i]
           o == s.script[s.ip]
           next(t) == IF s.ip = Len(s.script) THEN Returned(t)
                      ELSE [t EXCEPT !.ip = s.ip + 1]
       IN \/ /\ o.op = "throw"
             /\ ok
             /\ ix' = [ix EXCEPT ![i] = Catch(Rethrown(s, o))]
          \/ /\ o.op = "sleep"
             /\ ok
             /\ ix' = [ix EXCEPT ![i] = next(s)]
          \/ /\ o.op \notin {"throw", "sleep"}
             /\ LET t == Send(s, "command", o.op, o.ephemeral, o.content, ok)
                IN ix' = [ix EXCEPT ![i] =
                       IF ok /\ Accepts(s, o.op) THEN next(t)
                       ELSE Catch(Rethrown(t, o))]
    /\ Frame

\* the catch block without its test of replied / deferred
FailureNoticeAlwaysReply(s) == "reply"

\* if (interaction.replied || interaction.deferred) followUp else reply
FailureNotice(s) == IF s.replied \/ s.deferred THEN "followUp" ELSE "reply"

\* the catch block testing replied / deferred of any interaction in flight
NoticeSettledSharedFlags(i, ok) ==
    /\ ix[i].pc = "notice"
    /\ LET s == ix[i]
           op == IF \E j \in DOMAIN ix : ix[j].replied \/ ix[j].deferred
                 THEN "followUp" ELSE "reply"
           t == Send(s, "dispatcher", op, TRUE, ErrorMessage, ok)
       IN ix' = [ix EXCEPT ![i] =
              [t EXCEPT !.pc = "done",
                        !.exit = IF ok /\ Accepts(s, op) THEN "caught" ELSE "escaped"]]
    /\ Frame

\* The failure notice of the catch block settles; nothing catches its error
NoticeSettled(i, ok) ==
    /\ ix[i].pc = "notice"
    /\ LET s == ix[i]
           op == FailureNotice(s)
           t == Send(s, "dispatcher", op, TRUE, ErrorMessage, ok)
       IN ix' = [ix EXCEPT ![i] =
              [t EXCEPT !.pc = "done",
                        !.exit = IF ok /\ Accepts(s, op) THEN "caught" ELSE "escaped"]]
    /\ Frame

\* The handler is over and its interaction object is dropped
Retire(i) ==
    /\ ix[i].pc = "done"
    /\ ix' = [ix EXCEPT ![i] = Idle]
    /\ Frame

----------------------------------------------------------------------------
(* Command.validate when awaited, and the two entry points *)

\* await command.validate(interaction), with what each statement can throw:
\* line 86 dereferences interaction.guild (reached only behind the test of
\* interaction.guild), line 87 reads botMember?.permissions (undefined, not
\* an error, without a member entry), line 98 calls includes on
\* config.developerIds (a TypeError if that is undefined)
validateSettled(c, r, env) ==
    LET ids == developerIdsOf(env)
        reached86 == ~GuildCheckFails(c, r) /\ Len(c.requiredPermissions) > 0 /\ r.guild
        reached98 == ~GuildCheckFails(c, r) /\ ~PermissionCheckFails(c, r) /\ c.developerOnly
        throws == \/ reached86 /\ ~r.guild
                  \/ reached98 /\ ~ids.defined
    IN IF throws THEN [status |-> "rejected", value |-> Undefined]
       ELSE [status |-> "fulfilled", value |-> validate(c, r, ids.value)]

----------------------------------------------------------------------------
(* The entry points: main() of index.ts and registerCommands() of
   register.ts, one action per stretch of code between two awaits *)

\* A process: which entry point it runs, where it is suspended, what its
\* loggers wrote, what it handed to the platform, how the platform call it
\* awaited settled, and how it ended
Process(entry) ==
    [entry |-> entry, pc |-> "start", log |-> <<>>, put |-> FALSE, body |-> <<>>,
     route |-> None, bot |-> FALSE, listener |-> FALSE, login |-> None,
     settled |-> None, exited |-> FALSE, exitCode |-> 0]

NoProcess == [Process(None) EXCEPT !.pc = "none"]

Logged(p, level, message) == [p EXCEPT !.log = Append(@, Log(level, p.entry, message))]

\* process.exit(code), or the process ending once nothing is left to run
Exit(p, code) == [p EXCEPT !.pc = "exited", !.exited = TRUE, !.exitCode = code]

\* the catch block logging and leaving the process to end by itself
RegisterCatchLogOnly(p) == Exit(Logged(p, "error", "Error registering commands"), 0)

\* catch (error) of registerCommands: logger.error, process.exit(1)
RegisterCatch(p) == Exit(Logged(p, "error", "Error registering commands"), 1)

\* catch (error) of main: logger.error, process.exit(1)
MainCatch(p) == Exit(Logged(p, "error", "Failed to start bot"), 1)

\* the lines logged for each command of ALL_COMMANDS after the PUT
RegisteredLines(p, cmds) ==
    [p EXCEPT !.log = @ \o [k \in 1..Len(cmds) |->
                               Log("info", p.entry, "Registered")]]

\* registerCommands up to `await rest.put(...)`: Environment.validate,
\* getConfig, new CommandManager(ALL_COMMANDS), getRegistrationData
RegisterCommands ==
    /\ proc.entry = "register"
    /\ proc.pc = "start"
    /\ LET v == EnvironmentValidate(processEnv)
           config == getConfig(v.env)
           throws == \E k \in 1..Len(allCommands) : toJSONThrows(allCommands[k])
       IN /\ processEnv' = v.env
          /\ IF v.error # None
             THEN /\ proc' = RegisterCatch(proc)
                  /\ UNCHANGED <<input, built, commands, commandMap, developerIds>>
             ELSE /\ input' = allCommands
                  /\ built' = TRUE
                  /\ commands' = allCommands
                  /\ commandMap' = loadCommands(allCommands)
                  /\ developerIds' = config.developerIds
                  /\ proc' =
                       IF throws THEN RegisterCatch(proc)
                       ELSE [Logged(Logged(proc, "info", "Preparing to register"),
                                    "info", "Started refreshing")
                                EXCEPT !.pc = "put",
                                       !.put = TRUE,
                                       !.route = config.discordClientId,
                                       !.body = registrationDataOf(allCommands)]
    /\ UNCHANGED <<probe, ix, allCommands>>

\* rest.put settles: the success lines, or the catch block
RegisterPutSettled(ok) ==
    /\ proc.entry = "register"
    /\ proc.pc = "put"
    /\ LET p == [proc EXCEPT !.settled = IF ok THEN "fulfilled" ELSE "rejected"]
       IN proc' = IF ok
                  THEN Exit(RegisteredLines(Logged(p, "info", "Successfully reloaded"),
                                            allCommands), 0)
                  ELSE RegisterCatch(p)
    /\ UNCHANGED <<input, built, commands, commandMap, developerIds, probe, ix,
                   allCommands, processEnv>>

\* main up to `await this.client.login(this.token)`: Environment.validate,
\* getConfig, new Bot(config.discordToken, ALL_COMMANDS), the signal
\* handlers, bot.start()
Main ==
    /\ proc.entry = "main"
    /\ proc.pc = "start"
    /\ LET v == EnvironmentValidate(processEnv)
           config == getConfig(v.env)
       IN /\ processEnv' = v.env
          /\ IF v.error # None
             THEN /\ proc' = MainCatch(proc)
                  /\ UNCHANGED <<input, built, commands, commandMap, developerIds>>
             ELSE /\ input' = allCommands
                  /\ built' = TRUE
                  /\ commands' = allCommands
                  /\ commandMap' = loadCommands(allCommands)
                  /\ developerIds' = config.developerIds
                  /\ proc' = [Logged(proc, "info", "Initializing bot")
                                EXCEPT !.pc = "login", !.bot = TRUE,
                                       !.listener = TRUE,
                                       !.login = config.discordToken]
    /\ UNCHANGED <<probe, ix, allCommands>>

\* client.login settles: Bot.start logs and rethrows its error, main's
\* catch block logs it and exits
LoginSettled(ok) ==
    /\ proc.entry = "main"
    /\ proc.pc = "login"
    /\ LET p == [proc EXCEPT !.settled = IF ok THEN "fulfilled" ELSE "rejected"]
       IN proc' = IF ok
                  THEN [Logged(p, "info", "Bot started successfully!")
                           EXCEPT !.pc = "running"]
                  ELSE MainCatch([p EXCEPT !.log =
                           Append(@, Log("error", "Bot", "Failed to start bot"))])
    /\ UNCHANGED <<input, built, commands, commandMap, developerIds, probe, ix,
                   allCommands, processEnv>>

----------------------------------------------------------------------------
(* The running bot: new Bot(token, commands) has built its CommandManager *)

BotCommands == ALL_COMMANDS \o <<UserCommand(1)>>

DeveloperIdConfigs == {<<>>, <<"alice">>}

NoProbe == [op |-> None, arg |-> Undefined, result |-> Undefined]

\* index.ts once main has logged 'Bot started successfully!'
RunningProcess ==
    [Logged(Logged(Process("main"), "info", "Initializing bot"),
            "info", "Bot started successfully!")
        EXCEPT !.pc = "running", !.bot = TRUE, !.listener = TRUE,
               !.login = "tok_good", !.settled = "fulfilled"]

Init ==
    /\ input = BotCommands
    /\ built = TRUE
    /\ commands = input
    /\ commandMap = loadCommands(input)
    /\ developerIds \in DeveloperIdConfigs
    /\ probe = NoProbe
    /\ ix = [i \in Slots |-> Idle]
    /\ allCommands = ALL_COMMANDS
    /\ processEnv = ProcessEnv("tok_good", "app", "production", developerIds)
    /\ proc = RunningProcess

Next ==
    \E i \in Slots :
        \/ \E r \in Requests : InteractionCreate(i, r)
        \/ ValidateReturned(i)
        \/ \E ok \in BOOLEAN : RejectReplySettled(i, ok)
        \/ \E ok \in BOOLEAN : ExecuteStep(i, ok)
        \/ \E ok \in BOOLEAN : NoticeSettled(i, ok)
        \/ Retire(i)

Spec == Init /\ [][Next]_vars

----------------------------------------------------------------------------
(* The registry on its own, built from any command list up to MaxCommands,
   and validate on its own, for any command configuration and environment *)

CommandPool == {PingCommand(1), InfoCommand(1), ExampleCommand(1), PingCommand(2)}

CommandLists == UNION {[1..n -> CommandPool] : n \in 0..MaxCommands}

ProbeNames == {"ping", "info", "example", "foo"}

PermissionLists == {<<>>, <<"SendMessages">>, <<"ManageMessages", "KickMembers">>}

CommandConfigs ==
    {[Command("UserCommand", 1, "mycommand", "Custom")
        EXCEPT !.guildOnly = g, !.requiredPermissions = p, !.developerOnly = d] :
     g \in BOOLEAN, p \in PermissionLists, d \in BOOLEAN}

HasDuplicateNames(cmds) ==
    \E j, k \in 1..Len(cmds) : j < k /\ getName(cmds[j]) = getName(cmds[k])

GetCommandProbe ==
    /\ built
    /\ \E n \in ProbeNames :
          probe' = [op |-> "getCommand", arg |-> n, result |-> getCommand(n)]
    /\ UNCHANGED <<input, built, commands, commandMap, developerIds, ix,
                   allCommands, processEnv, proc>>

InitRegistry ==
    /\ input \in CommandLists
    /\ built = FALSE
    /\ commands = <<>>
    /\ commandMap = EmptyMap
    /\ developerIds = <<>>
    /\ probe = NoProbe
    /\ ix = [i \in Slots |-> Idle]
    /\ allCommands = input
    /\ processEnv = ProcessEnv("tok_good", "app", "production", developerIds)
    /\ proc = NoProcess

NextRegistry == CommandManagerNew \/ GetCommandProbe

SpecRegistry == InitRegistry /\ [][NextRegistry]_vars

ValidateProbe ==
    /\ \E c \in CommandConfigs, e \in Envs, u \in Users :
          LET r == Interaction("chatInput", getName(c), e, u, None) IN
          probe' = [op |-> "validate", arg |-> [cmd |-> c, req |-> r],
                    result |-> validate(c, r, developerIds)]
    /\ UNCHANGED <<input, built, commands, commandMap, developerIds, ix,
                   allCommands, processEnv, proc>>

InitValidate ==
    /\ input = <<>>
    /\ built = FALSE
    /\ commands = <<>>
    /\ commandMap = EmptyMap
    /\ developerIds \in DeveloperIdConfigs
    /\ probe = NoProbe
    /\ ix = [i \in Slots |-> Idle]
    /\ allCommands = ALL_COMMANDS
    /\ processEnv = ProcessEnv("tok_good", "app", "production", developerIds)
    /\ proc = NoProcess

NextValidate == ValidateProbe

SpecValidate == InitValidate /\ [][NextValidate]_vars

\* The two entry points, started in any environment with the shipped
\* array (or one holding a command whose builder was left incomplete), and in
\* a valid environment with any array
IncompleteCommand(inst) == Command("UserCommand", inst, None, "Custom")

StartArrays == {ALL_COMMANDS, ALL_COMMANDS \o <<IncompleteCommand(1)>>}

InitStartup ==
    /\ input = <<>>
    /\ built = FALSE
    /\ commands = <<>>
    /\ commandMap = EmptyMap
    /\ developerIds = <<>>
    /\ probe = NoProbe
    /\ ix = [i \in Slots |-> Idle]
    /\ \/ /\ processEnv \in StartEnvs
          /\ allCommands \in StartArrays
       \/ /\ processEnv = ProcessEnv("tok_good", "app", "production", <<"alice">>)
          /\ allCommands \in CommandLists
    /\ proc \in {Process("main"), Process("register")}

NextStartup ==
    \/ RegisterCommands
    \/ \E ok \in BOOLEAN : RegisterPutSettled(ok)
    \/ Main
    \/ \E ok \in BOOLEAN : LoginSettled(ok)

SpecStartup == InitStartup /\ [][NextStartup]_vars

\* The queries of a built registry and of the help command.  The array
\* ALL_COMMANDS is any list; the Bot was given that array (as main does),
\* no list (the default of its constructor), or a list with one more command
Letters ==
    <<"a", "b", "c", "d", "e", "f", "g", "h", "i", "j", "k", "l", "m", "n",
      "o", "p", "q", "r", "s", "t", "u", "v", "w", "x", "y", "z", "0", "1">>

\* an array of n commands with one-letter names
LetterCommands(n) == [k \in 1..n |-> Command("UserCommand", k, Letters[k], "Custom")]

QueryArrays == CommandLists \cup {ALL_COMMANDS, LetterCommands(MaxArray)}

BotLists(all) == {all, <<>>, all \o <<UserCommand(1)>>}

QueryNames == ProbeNames \cup {"mycommand", "a"}

\* what the user has typed into the 'command' option so far
FocusedValues ==
    {<<>>, <<"p">>, <<"P">>, <<"p", "i">>, <<"P", "I">>, <<"p", "x">>, <<"i">>,
     <<"e">>, <<"E">>, <<"h">>, <<"x">>, <<"a">>, <<"A">>}

\* a query after which the name map is empty
QueryFrameClearingMap ==
    /\ UNCHANGED <<input, built, commands, developerIds, ix, allCommands,
                   processEnv, proc>>
    /\ commandMap' = EmptyMap

QueryFrame ==
    UNCHANGED <<input, built, commands, commandMap, developerIds, ix,
                allCommands, processEnv, proc>>

GetAllCommandsProbe ==
    /\ built
    /\ probe' = [op |-> "getAllCommands", arg |-> Undefined, result |-> getAllCommands]
    /\ QueryFrame

GetRegistrationDataProbe ==
    /\ built
    /\ probe' = [op |-> "getRegistrationData", arg |-> Undefined,
                 result |-> getRegistrationData]
    /\ QueryFrame

GetCommandsByCategoryProbe ==
    /\ built
    /\ probe' = [op |-> "getCommandsByCategory", arg |-> Undefined,
                 result |-> getCommandsByCategory]
    /\ QueryFrame

GetCommandHelpProbe ==
    /\ built
    /\ \E n \in QueryNames :
          probe' = [op |-> "getCommandHelp", arg |-> n, result |-> getCommandHelp(n)]
    /\ QueryFrame

ShowSpecificCommandHelpProbe ==
    /\ built
    /\ \E n \in QueryNames :
          probe' = [op |-> "showSpecificCommandHelp", arg |-> n,
                    result |-> showSpecificCommandHelp(n)]
    /\ QueryFrame

ShowAllCommandsHelpProbe ==
    /\ built
    /\ probe' = [op |-> "showAllCommandsHelp", arg |-> Undefined,
                 result |-> showAllCommandsHelp]
    /\ QueryFrame

AutocompleteProbe ==
    /\ built
    /\ \E f \in FocusedValues :
          probe' = [op |-> "autocomplete", arg |-> f, result |-> autocomplete(f)]
    /\ QueryFrame

InitQueries ==
    /\ allCommands \in QueryArrays
    /\ input \in BotLists(allCommands)
    /\ built = TRUE
    /\ commands = input
    /\ commandMap = loadCommands(input)
    /\ developerIds = <<>>
    /\ probe = NoProbe
    /\ ix = [i \in Slots |-> Idle]
    /\ processEnv = ProcessEnv("tok_good", "app", "production", developerIds)
    /\ proc = NoProcess

NextQueries ==
    \/ GetAllCommandsProbe
    \/ GetRegistrationDataProbe
    \/ GetCommandsByCategoryProbe
    \/ GetCommandHelpProbe
    \/ ShowSpecificCommandHelpProbe
    \/ ShowAllCommandsHelpProbe
    \/ AutocompleteProbe

SpecQueries == InitQueries /\ [][NextQueries]_vars

\* The running bot of alice, a developer, with its registry queried while
\* interactions are dispatched: an autocomplete interaction, an unknown
\* command, a rejected one (guild only, developers only), one whose execute
\* throws and ones whose execute returns
GuildWithAll == [guild |-> TRUE, botCached |-> TRUE, granted |-> AllPermissions]

DirectMessage == [guild |-> FALSE, botCached |-> FALSE, granted |-> {}]

SampleRequests ==
    {Interaction("autocomplete", "help", GuildWithAll, "alice", "pi"),
     Interaction("chatInput", "foo", GuildWithAll, "alice", None),
     Interaction("chatInput", "example", DirectMessage, "alice", "user"),
     Interaction("chatInput", "example", GuildWithAll, "alice", None),
     Interaction("chatInput", "dev", GuildWithAll, "alice", "test"),
     Interaction("chatInput", "dev", GuildWithAll, "bob", "test"),
     Interaction("chatInput", "ping", GuildWithAll, "bob", None)}

InitReadOnly ==
    /\ input = BotCommands
    /\ built = TRUE
    /\ commands = input
    /\ commandMap = loadCommands(input)
    /\ developerIds = <<"alice">>
    /\ probe = NoProbe
    /\ ix = [i \in Slots |-> Idle]
    /\ allCommands = ALL_COMMANDS
    /\ processEnv = ProcessEnv("tok_good", "app", "production", developerIds)
    /\ proc = RunningProcess

NextReadOnly ==
    \/ \E i \in Slots :
          \/ \E r \in SampleRequests : InteractionCreate(i, r)
          \/ ValidateReturned(i)
          \/ \E ok \in BOOLEAN : RejectReplySettled(i, ok)
          \/ \E ok \in BOOLEAN : ExecuteStep(i, ok)
          \/ \E ok \in BOOLEAN : NoticeSettled(i, ok)
          \/ Retire(i)
    \/ GetCommandProbe
    \/ GetAllCommandsProbe
    \/ GetRegistrationDataProbe
    \/ GetCommandsByCategoryProbe
    \/ GetCommandHelpProbe

SpecReadOnly == InitReadOnly /\ [][NextReadOnly]_vars

\* Several interactions in flight at once: every call of the async handler
\* runs up to its next await, and the event loop resumes the suspended
\* handlers in any order
ConcurrentSlots == 1..MaxConcurrent

InitConcurrent ==
    /\ input = BotCommands
    /\ built = TRUE
    /\ commands = input
    /\ commandMap = loadCommands(input)
    /\ developerIds = <<"alice">>
    /\ probe = NoProbe
    /\ ix = [i \in ConcurrentSlots |-> Idle]
    /\ allCommands = ALL_COMMANDS
    /\ processEnv = ProcessEnv("tok_good", "app", "production", developerIds)
    /\ proc = RunningProcess

NextConcurrent ==
    \E i \in ConcurrentSlots :
        \/ \E r \in SampleRequests : InteractionCreate(i, r)
        \/ ValidateReturned(i)
        \/ \E ok \in BOOLEAN : RejectReplySettled(i, ok)
        \/ \E ok \in BOOLEAN : ExecuteStep(i, ok)
        \/ \E ok \in BOOLEAN : NoticeSettled(i, ok)
        \/ Retire(i)

SpecConcurrent == InitConcurrent /\ [][NextConcurrent]_vars

\* The same bot where the execute of the interaction in slot StalledSlot may
\* never return: the event loop resumes every other handler whose awaited
\* promise has settled (weak fairness of each of its steps), and nothing is
\* assumed of the steps of the stalled one
StalledSlot == 1

FairStep(i) ==
    /\ WF_vars(ValidateReturned(i))
    /\ WF_vars(\E ok \in BOOLEAN : RejectReplySettled(i, ok))
    /\ WF_vars(\E ok \in BOOLEAN : ExecuteStep(i, ok))
    /\ WF_vars(\E ok \in BOOLEAN : NoticeSettled(i, ok))

SpecStalled ==
    /\ InitConcurrent
    /\ [][NextConcurrent]_vars
    /\ \A i \in ConcurrentSlots \ {StalledSlot} : FairStep(i)

\* validate awaited in a process whose DEVELOPER_IDS is set, empty or unset
AwaitEnvs ==
    {ProcessEnv("tok_good", "app", "production", d) : d \in DeveloperIdsValues}
    \cup {Unset(ProcessEnv("tok_good", "app", "production", <<>>), "DEVELOPER_IDS")}

\* interaction.user.id: a user, or the empty string
Callers == Users \cup {""}

AwaitValidateProbe ==
    /\ \E c \in CommandConfigs, e \in Envs, u \in Callers :
          LET r == Interaction("chatInput", getName(c), e, u, None) IN
          probe' = [op |-> "await validate", arg |-> [cmd |-> c, req |-> r],
                    result |-> validateSettled(c, r, processEnv)]
    /\ UNCHANGED <<input, built, commands, commandMap, developerIds, ix,
                   allCommands, processEnv, proc>>

InitAwaitValidate ==
    /\ input = <<>>
    /\ built = FALSE
    /\ commands = <<>>
    /\ commandMap = EmptyMap
    /\ processEnv \in AwaitEnvs
    /\ developerIds = getConfig(processEnv).developerIds
    /\ probe = NoProbe
    /\ ix = [i \in Slots |-> Idle]
    /\ allCommands = ALL_COMMANDS
    /\ proc = NoProcess

NextAwaitValidate == AwaitValidateProbe

SpecAwaitValidate == InitAwaitValidate /\ [][NextAwaitValidate]_vars

----------------------------------------------------------------------------
(* Properties of the registry (SpecRegistry) *)

\* C1: constructing the CommandManager from a list in which two commands
\* share a name fails: the constructor never completes on such a list.
\* (The constructor completes on every list; see C1_Shadowed.)
C1_DuplicateNamesAbortConstruction == HasDuplicateNames(input) => ~built

\* The state C1 excludes: the registry is built from a list with two
\* different commands of one name, and the name resolves to the later one
C1_Shadowed ==
    /\ built
    /\ \E j, k \in 1..Len(commands) :
          /\ j < k
          /\ getName(commands[j]) = getName(commands[k])
          /\ commands[j] # commands[k]
          /\ getCommand(getName(commands[j])) = commands[k]

\* C2: in every constructed registry, getCommand(c.getName()) is exactly c
\* for every command c of the sequence, and getCommand is undefined for
\* every name no command of the sequence has.
C2_LookupTotalAndConsistent ==
    built =>
        /\ \A k \in 1..Len(commands) : getCommand(getName(commands[k])) = commands[k]
        /\ \A n \in ProbeNames :
              (\A k \in 1..Len(commands) : getName(commands[k]) # n)
                  => getCommand(n) = Undefined

----------------------------------------------------------------------------
(* Properties of validate (SpecValidate) *)

----------------------------------------------------------------------------
(* Properties of the interaction handler (Spec) *)

Sends == {"reply", "deferReply", "editReply", "followUp"}

Called(s, method) == \E k \in 1..Len(s.trace) : s.trace[k] = Call(method)

\* the sends of the handler itself / of anyone, as positions of the trace
DispatcherSends(s) ==
    {k \in 1..Len(s.trace) : s.trace[k].by = "dispatcher" /\ s.trace[k].ev \in Sends}

AllSends(s) == {k \in 1..Len(s.trace) : s.trace[k].ev \in Sends}

\* the initial responses that went through
InitialReplies(s) ==
    {k \in 1..Len(s.trace) : s.trace[k].ev \in {"reply", "deferReply"} /\ s.trace[k].ok}

\* whether the interaction was replied to or deferred before position k
RespondedBefore(s, k) ==
    \E j \in 1..(k - 1) : s.trace[j].ev \in Sends /\ s.trace[j].ok

BuiltIn == {"PingCommand", "InfoCommand", "ExampleCommand", "HelpCommand", "DevCommand"}

\* C3: for every built-in command whose execute was called: if execute
\* returned, exactly one initial reply was sent; if it raised, the handler
\* sent exactly one failure notice and at most one initial reply went out.
C3_ExactlyOneReply ==
    \A i \in Slots :
        LET s == ix[i] IN
        (s.pc = "done" /\ Called(s, "execute") /\ s.cmd.class \in BuiltIn) =>
            /\ s.exit = "executed" => Cardinality(InitialReplies(s)) = 1
            /\ s.exit \in {"caught", "escaped"} =>
                  /\ Cardinality(DispatcherSends(s)) = 1
                  /\ Cardinality(InitialReplies(s)) <= 1

\* DevCommand.execute has returned on a subcommand other than info and test:
\* the handler logged success and nothing was sent
C3_SilentReturn ==
    \E i \in Slots :
        /\ ix[i].pc = "done"
        /\ ix[i].exit = "executed"
        /\ ix[i].cmd.class = "DevCommand"
        /\ ix[i].req.option = "stale"
        /\ AllSends(ix[i]) = {}

\* C3 without DevCommand's unknown subcommand
C3_ExactlyOneReplyKnownSubcommands ==
    \A i \in Slots :
        LET s == ix[i] IN
        (/\ s.pc = "done"
         /\ Called(s, "execute")
         /\ s.cmd.class \in BuiltIn
         /\ ~(s.cmd.class = "DevCommand" /\ s.req.option = "stale")) =>
            /\ s.exit = "executed" => Cardinality(InitialReplies(s)) = 1
            /\ s.exit \in {"caught", "escaped"} =>
                  /\ Cardinality(DispatcherSends(s)) = 1
                  /\ Cardinality(InitialReplies(s)) <= 1

\* C4: no error raised while an interaction is handled escapes the handler:
\* every handler completes normally.
C4_HandlerNeverThrows == \A i \in Slots : ix[i].exit # "escaped"

\* C6 (as stated): whenever a required permission is absent from what the
\* bot is granted, in a guild or not, validate returns invalid and execute
\* is not reached.
C6_MissingCapabilityRejected ==
    \A i \in Slots :
        LET s == ix[i] IN
        (/\ s.cmd # Undefined
         /\ Len(s.cmd.requiredPermissions) > 0
         /\ \E k \in 1..Len(s.cmd.requiredPermissions) :
               s.cmd.requiredPermissions[k] \notin s.req.granted) =>
            ~s.validation.valid /\ ~Called(s, "execute")

\* C6 (amended): whenever the interaction comes from a guild and a required
\* permission is absent from what the bot is granted there, validate returns
\* invalid and execute is not reached.
C6_MissingCapabilityRejectedInGuild ==
    \A i \in Slots :
        LET s == ix[i] IN
        (/\ s.cmd # Undefined
         /\ Len(s.cmd.requiredPermissions) > 0
         /\ s.req.guild
         /\ \E k \in 1..Len(s.cmd.requiredPermissions) :
               s.cmd.requiredPermissions[k] \notin s.req.granted) =>
            ~s.validation.valid /\ ~Called(s, "execute")

\* An interaction from a guild was rejected for a missing permission
C6_RejectedInGuild ==
    \E i \in Slots :
        /\ ix[i].pc = "done"
        /\ ix[i].exit = "rejected"
        /\ ix[i].req.guild
        /\ ix[i].req.botCached
        /\ ix[i].validation.reason = PermissionReason

\* C7: when a developer-only command is invoked by a caller who is not in
\* developerIds, the handler sends exactly one reply, ephemeral and carrying
\* the developers-only reason, and execute is not invoked.
C7_NonDeveloperGetsOneReply ==
    \A i \in Slots :
        LET s == ix[i] IN
        (/\ s.pc = "done"
         /\ s.cmd # Undefined
         /\ s.cmd.developerOnly
         /\ DeveloperCheckFails(s.cmd, s.req, developerIds)) =>
            /\ ~Called(s, "execute")
            /\ Cardinality(DispatcherSends(s)) = 1
            /\ \A k \in DispatcherSends(s) :
                  s.trace[k] = Event("reply", "dispatcher", TRUE, DeveloperOnlyReason,
                                     s.trace[k].ok)

\* C8: for every interaction whose validation result is invalid, exactly one
\* message is sent: the handler's ephemeral reply carrying the validation
\* reason; nothing follows it and execute is not invoked.
C8_RejectionIsSingleAndTerminal ==
    \A i \in Slots :
        LET s == ix[i] IN
        (s.pc = "done" /\ s.validation # Undefined /\ ~s.validation.valid) =>
            /\ ~Called(s, "execute")
            /\ Cardinality(AllSends(s)) = 1
            /\ \A k \in AllSends(s) :
                  /\ s.trace[k].by = "dispatcher"
                  /\ s.trace[k].ev = "reply"
                  /\ s.trace[k].ephemeral
                  /\ s.trace[k].content = s.validation.reason

\* The rejection reply failed and the catch block sent the failure notice
\* after it, though execute was never called
C8_NoticeAfterRejection ==
    \E i \in Slots :
        /\ ix[i].pc = "done"
        /\ ix[i].validation # Undefined
        /\ ~ix[i].validation.valid
        /\ ~Called(ix[i], "execute")
        /\ Cardinality(DispatcherSends(ix[i])) = 2

\* C9: for a chat-input interaction naming a command the registry does not
\* hold, the handler logs one warning and returns: nothing is sent, neither
\* validate nor execute is called.
C9_UnknownCommandDropped ==
    \A i \in Slots :
        LET s == ix[i] IN
        (/\ s.pc # "idle"
         /\ s.req.type = "chatInput"
         /\ getCommand(s.req.commandName) = Undefined) =>
            /\ s.pc = "done"
            /\ s.exit = "unresolved"
            /\ s.trace = <<LogWith("warn", "Unknown command", <<CommandNameOf(s)>>)>>

C9_UnknownCommandSeen ==
    \E i \in Slots :
        /\ ix[i].pc = "done"
        /\ ix[i].req.commandName = "foo"
        /\ ix[i].exit = "unresolved"

\* C10: when execute raises, the handler sends exactly one failure notice,
\* ephemeral: a followUp if the interaction had been replied to or deferred,
\* a fresh reply if it had not; never both.
C10_NoticeFollowsReplyState ==
    \A i \in Slots :
        LET s == ix[i] IN
        (s.pc = "done" /\ Called(s, "execute") /\ s.exit \in {"caught", "escaped"}) =>
            /\ Cardinality(DispatcherSends(s)) = 1
            /\ \A k \in DispatcherSends(s) :
                  /\ s.trace[k].ephemeral
                  /\ s.trace[k].content = ErrorMessage
                  /\ s.trace[k].ev = IF RespondedBefore(s, k) THEN "followUp" ELSE "reply"

\* execute deferred, then raised, and the notice went out as a followUp
C10_FollowUpAfterDefer ==
    \E i \in Slots :
        LET s == ix[i] IN
        /\ s.pc = "done"
        /\ s.exit = "caught"
        /\ s.deferred
        /\ \E k \in DispatcherSends(s) : s.trace[k].ev = "followUp" /\ s.trace[k].ok

\* C11: within one dispatch the steps are lookup, validate, execute in that
\* order: validate is called on the command the lookup returned, execute is
\* called at most once, and only after validate of that command on that
\* interaction has returned a valid result.
C11_ExecuteOnlyAfterValid ==
    \A i \in Slots :
        LET s == ix[i]
            V == {k \in 1..Len(s.trace) : s.trace[k] = Call("validate")}
            E == {k \in 1..Len(s.trace) : s.trace[k] = Call("execute")}
        IN /\ Cardinality(V) <= 1
           /\ Cardinality(E) <= 1
           /\ V # {} =>
                 /\ s.cmd # Undefined
                 /\ s.cmd = getCommand(s.req.commandName)
                 /\ s.validation = validate(s.cmd, s.req, developerIds)
           /\ \A k \in E :
                 /\ \E j \in V : j < k
                 /\ s.pc # "validate"
                 /\ s.validation.valid

\* execute was called after a valid validation and has returned
C11_ExecutedAfterValidation ==
    \E i \in Slots :
        /\ ix[i].pc = "done"
        /\ ix[i].exit = "executed"
        /\ ix[i].validation.valid
        /\ Called(ix[i], "validate")
        /\ Called(ix[i], "execute")

----------------------------------------------------------------------------
(* Properties of the entry points and of the registry they build
   (SpecStartup) *)

\* C12: for every list the registry is built from, getAllCommands is that
\* list in its order, getRegistrationData has the same length and its i-th
\* element is the payload of the i-th command, and the body register.ts puts
\* to the platform is exactly that sequence.
C12_PayloadsInRegistrationOrder ==
    /\ built =>
          /\ getAllCommands = input
          /\ (\A k \in 1..Len(input) : ~toJSONThrows(input[k])) =>
                /\ Len(getRegistrationData) = Len(input)
                /\ \A k \in 1..Len(input) : getRegistrationData[k] = toJSON(input[k])
    /\ proc.put =>
          /\ built
          /\ input = allCommands
          /\ proc.body = getRegistrationData

\* register.ts has put the payloads of a list of three commands, of which
\* the first and the last differ
C12_BulkPutOfSeveral ==
    /\ proc.put
    /\ Len(proc.body) = MaxCommands
    /\ proc.body[1] # proc.body[MaxCommands]
    /\ proc.body = [k \in 1..MaxCommands |-> toJSON(allCommands[k])]

\* C19: when environment validation, the construction of the payloads or
\* the bulk PUT fails, register.ts aborts the export (nothing is put after a
\* failure of the first two), logs the error and exits with code 1, and no
\* 'Registered' line is logged in that run.
C19_ExportFailureExitsNonZero ==
    (proc.entry = "register" /\ proc.pc # "start") =>
        LET envFails == \/ missingVars(processEnv) # <<>>
                        \/ invalidVars(processEnv) # <<>>
            payloadFails == \E k \in 1..Len(allCommands) : toJSONThrows(allCommands[k])
            putFails == proc.settled = "rejected"
        IN /\ (envFails \/ payloadFails) => ~proc.put
           /\ (envFails \/ payloadFails \/ putFails) =>
                 /\ proc.exited
                 /\ proc.exitCode = 1
                 /\ \E k \in 1..Len(proc.log) : proc.log[k].ev = "error"
                 /\ \A k \in 1..Len(proc.log) : proc.log[k].content # "Registered"

\* the PUT was rejected by the platform and register.ts exited with code 1
C19_PutRejected ==
    /\ proc.entry = "register"
    /\ proc.put
    /\ proc.settled = "rejected"
    /\ proc.exited
    /\ proc.exitCode = 1

\* C20: when DISCORD_TOKEN or DISCORD_CLIENT_ID is missing or malformed, or
\* DEVELOPER_IDS holds an invalid entry, main exits with code 1 and has
\* neither constructed the Bot (and its registry), nor registered the
\* interaction listener, nor attempted the login.
C20_BadConfigurationAbortsStartup ==
    (proc.entry = "main" /\ proc.pc # "start") =>
        LET ids == Get(processEnv, "DEVELOPER_IDS")
            bad == \/ Falsy(processEnv, "DISCORD_TOKEN")
                   \/ Falsy(processEnv, "DISCORD_CLIENT_ID")
                   \/ ~isValidDiscordToken(processEnv.DISCORD_TOKEN)
                   \/ ~isValidDiscordId(processEnv.DISCORD_CLIENT_ID)
                   \/ \E k \in 1..Len(split(ids)) :
                         /\ trim(split(ids)[k]) # ""
                         /\ ~isValidDiscordId(trim(split(ids)[k]))
        IN bad =>
             /\ proc.exited
             /\ proc.exitCode = 1
             /\ ~proc.bot
             /\ ~proc.listener
             /\ proc.login = None
             /\ ~built

\* main was started with a valid token and client ID and an invalid entry in
\* DEVELOPER_IDS, and has exited with code 1 before constructing the Bot
C20_InvalidDeveloperIdAborts ==
    /\ proc.entry = "main"
    /\ proc.exited
    /\ proc.exitCode = 1
    /\ ~proc.bot
    /\ ~built
    /\ isValidDiscordToken(Get(processEnv, "DISCORD_TOKEN"))
    /\ isValidDiscordId(Get(processEnv, "DISCORD_CLIENT_ID"))
    /\ \E k \in 1..Len(processEnv.DEVELOPER_IDS) : processEnv.DEVELOPER_IDS[k] = "bogus"

----------------------------------------------------------------------------
(* Properties of the registry's queries and of the help command
   (SpecQueries) *)

FirstOfCategory(cmds, category) ==
    CHOOSE k \in 1..Len(cmds) :
        /\ cmds[k].category = category
        /\ \A j \in 1..(k - 1) : cmds[j].category # category

\* C13: getCommandsByCategory partitions the command sequence: each category
\* of a command has exactly one entry, the entry of a category holds exactly
\* the commands of that category in registration order, and the entries are
\* in the order of the first command registered for each category.
C13_CategoriesPartitionInOrder ==
    probe.op = "getCommandsByCategory" =>
        LET cats == probe.result IN
        /\ \A k \in 1..Len(commands) :
              \E j \in 1..Len(cats) : cats[j].category = commands[k].category
        /\ \A j \in 1..Len(cats) :
              LET inCategory(c) == c.category = cats[j].category IN
              /\ cats[j].commands # <<>>
              /\ cats[j].commands = SelectSeq(commands, inCategory)
        /\ \A j, k \in 1..Len(cats) :
              j < k =>
                  /\ cats[j].category # cats[k].category
                  /\ FirstOfCategory(commands, cats[j].category)
                        < FirstOfCategory(commands, cats[k].category)

\* A(X), B(Y), C(X) were registered and grouped: X -> [A, C], then Y -> [B]
C13_GroupedAXBYCX ==
    /\ probe.op = "getCommandsByCategory"
    /\ commands = <<PingCommand(1), ExampleCommand(1), InfoCommand(1)>>
    /\ probe.result =
          <<[category |-> "Utility", commands |-> <<PingCommand(1), InfoCommand(1)>>],
            [category |-> "Example", commands |-> <<ExampleCommand(1)>>]>>

C15_HelpDescribesWhatRegistryResolves ==
    probe.op = "showSpecificCommandHelp" => probe.result = getCommand(probe.arg)

\* help described a command for a name the registry does not resolve
C15_HelpDescribesUnregistered ==
    /\ probe.op = "showSpecificCommandHelp"
    /\ probe.result # Undefined
    /\ getCommand(probe.arg) = Undefined

\* C16: the listing of the help command is the registry's view: its
\* categories, their order and the commands under each are those of
\* getCommandsByCategory, and a command is dispatchable exactly when it is
\* listed by help and in the registration export (register.ts exports the
\* ALL_COMMANDS array).
C16_HelpListingIsRegistryView ==
    probe.op = "showAllCommandsHelp" =>
        LET listed == UNION {{probe.result[j].commands[k] :
                                 k \in 1..Len(probe.result[j].commands)} :
                             j \in 1..Len(probe.result)}
            exported == {allCommands[k] : k \in 1..Len(allCommands)}
            dispatchable == {commandMap[n] : n \in DOMAIN commandMap}
        IN /\ probe.result = getCommandsByCategory
           /\ dispatchable = listed \cap exported

\* help listed a command the Bot's registry does not dispatch
C16_ListedNotDispatchable ==
    /\ probe.op = "showAllCommandsHelp"
    /\ \E j \in 1..Len(probe.result) :
          \E k \in 1..Len(probe.result[j].commands) :
              getCommand(getName(probe.result[j].commands[k]))
                  # probe.result[j].commands[k]

----------------------------------------------------------------------------
(* Properties of the awaited validate (SpecAwaitValidate) and of the
   handler's treatment of autocomplete interactions (Spec) *)

\* C18: validate never raises: for every command configuration, with or
\* without a guild, with or without the bot's member entry in the cache, and
\* with DEVELOPER_IDS set, empty or unset, the awaited validate is fulfilled
\* with a result that is valid or carries a reason.
C18_ValidateAlwaysReturns ==
    probe.op = "await validate" =>
        /\ probe.result.status = "fulfilled"
        /\ \/ probe.result.value = Valid
           \/ /\ ~probe.result.value.valid
              /\ probe.result.value.reason
                    \in {GuildOnlyReason, PermissionReason, DeveloperOnlyReason}

\* a developer-only command requiring permissions was validated in a guild
\* with DEVELOPER_IDS unset: the call returned the developers-only result
C18_UnsetDeveloperIdsReturns ==
    /\ probe.op = "await validate"
    /\ "DEVELOPER_IDS" \notin DOMAIN processEnv
    /\ probe.arg.cmd.developerOnly
    /\ Len(probe.arg.cmd.requiredPermissions) > 0
    /\ probe.arg.req.guild
    /\ probe.arg.req.botCached
    /\ probe.result = [status |-> "fulfilled", value |-> Invalid(DeveloperOnlyReason, <<>>)]

\* C17: an autocomplete interaction for the help command's 'command' option
\* is answered with the suggestions of HelpCommand.autocomplete.  The
\* InteractionCreate listener is the only code run for an interaction, so
\* once it has returned the answer must have been sent.
C17_AutocompleteAnswered ==
    \A i \in Slots :
        LET s == ix[i] IN
        (s.pc = "done" /\ s.req.type = "autocomplete" /\ s.req.commandName = "help") =>
            \E k \in 1..Len(s.trace) : s.trace[k].ev = "respond"

\* the listener has returned on an autocomplete interaction for /help
\* without calling anything or sending anything
C17_AutocompleteIgnored ==
    \E i \in Slots :
        /\ ix[i].pc = "done"
        /\ ix[i].req.type = "autocomplete"
        /\ ix[i].req.commandName = "help"
        /\ ix[i].exit = "ignored"
        /\ ix[i].trace = <<>>

----------------------------------------------------------------------------
(* Properties of the shipped array, of the guild-only and developer-only
   checks *)

\* C30 (SpecStartup): the names of the commands of the shipped ALL_COMMANDS
\* are pairwise distinct, and for each of them the name the registry looks
\* up, the name of its help info and the name of its registration payload
\* are the same; once a registry is built from the array every command of it
\* resolves to itself.
C30_ShippedNamesCoincide ==
    allCommands = ALL_COMMANDS =>
        /\ \A j, k \in 1..Len(allCommands) :
              j # k => getName(allCommands[j]) # getName(allCommands[k])
        /\ \A k \in 1..Len(allCommands) :
              /\ getHelpInfo(allCommands[k]).name = getName(allCommands[k])
              /\ toJSON(allCommands[k]).name = getName(allCommands[k])
              /\ built => getCommand(getName(allCommands[k])) = allCommands[k]

\* the shipped array was registered with the platform by register.ts
C30_ShippedArrayRegistered ==
    /\ allCommands = ALL_COMMANDS
    /\ built
    /\ proc.put
    /\ proc.settled = "fulfilled"
    /\ Len(proc.body) = Len(ALL_COMMANDS)

\* C29 (Spec): execute of a guild-only command is never called on an
\* interaction without a guild, and no dispatch runs the branch of
\* ExampleCommand's server subcommand that dereferences an absent guild.
C29_GuildOnlyNeverExecutedInDM ==
    \A i \in Slots :
        LET s == ix[i] IN
        /\ (s.cmd # Undefined /\ s.cmd.guildOnly /\ Called(s, "execute")) => s.req.guild
        /\ \A k \in 1..Len(s.script) : s.script[k].content # "guild is null"

\* the server subcommand of /example was executed in a guild
C29_ServerSubcommandInGuild ==
    \E i \in Slots :
        /\ ix[i].pc = "done"
        /\ ix[i].exit = "executed"
        /\ ix[i].cmd.class = "ExampleCommand"
        /\ ix[i].req.option = "server"
        /\ ix[i].req.guild

BlankDeveloperIds(env) ==
    \/ "DEVELOPER_IDS" \notin DOMAIN env
    \/ \A k \in 1..Len(env.DEVELOPER_IDS) : env.DEVELOPER_IDS[k] \in {",", " "}

\* C28 (SpecAwaitValidate): with DEVELOPER_IDS unset, empty or made of
\* commas and blanks only, developerIds is empty and validate of a
\* developer-only command is invalid for every caller; and whatever
\* DEVELOPER_IDS is, a caller with the empty identity does not pass the
\* developer check.
C28_BlankListAdmitsNobody ==
    probe.op = "await validate" =>
        LET c == probe.arg.cmd
            r == probe.arg.req
            v == probe.result.value
        IN /\ BlankDeveloperIds(processEnv) =>
                 /\ getConfig(processEnv).developerIds = <<>>
                 /\ c.developerOnly => ~v.valid
                 /\ (c.developerOnly /\ ~GuildCheckFails(c, r) /\ ~PermissionCheckFails(c, r))
                       => v = Invalid(DeveloperOnlyReason, <<>>)
           /\ (c.developerOnly /\ r.user = "") => ~v.valid

\* a developer-only command was validated for the empty identity with
\* DEVELOPER_IDS = ", ," and rejected as developers-only
C28_EmptyIdentityRejected ==
    /\ probe.op = "await validate"
    /\ "DEVELOPER_IDS" \in DOMAIN processEnv
    /\ processEnv.DEVELOPER_IDS = <<",", " ", ",">>
    /\ probe.arg.cmd.developerOnly
    /\ probe.arg.req.user = ""
    /\ probe.result.value = Invalid(DeveloperOnlyReason, <<>>)

----------------------------------------------------------------------------
(* The rejection reason of the permission check *)

\* C25 (SpecValidate): when validate fails on the permission check, the
\* permissions its reason lists are exactly the required permissions that
\* the bot is not granted in the guild: every missing one is listed and no
\* granted one is.
C25_ReasonListsMissingOnly ==
    (probe.op = "validate" /\ probe.result.reason = PermissionReason) =>
        LET required == probe.arg.cmd.requiredPermissions
            listed == {probe.result.perms[k] : k \in 1..Len(probe.result.perms)}
            missing == {required[k] : k \in 1..Len(required)} \ probe.arg.req.granted
        IN listed = missing

\* The bot holds ManageMessages but not KickMembers, and the reason of the
\* rejection lists both
C25_GrantedPermissionListed ==
    /\ probe.op = "validate"
    /\ probe.arg.req.botCached
    /\ probe.arg.req.granted = {"ManageMessages"}
    /\ probe.result = Invalid(PermissionReason, <<"ManageMessages", "KickMembers">>)

----------------------------------------------------------------------------
(* The states of one dispatch *)

\* the catch block of the handler has run on the slot: its error entry is in
\* the log, or its failure notice is pending or was attempted
FailedHandling(s) ==
    \/ s.pc = "notice"
    \/ s.exit \in {"caught", "escaped"}
    \/ \E k \in 1..Len(s.trace) :
          \/ (s.trace[k].ev = "error" /\ s.trace[k].by = "dispatcher")
          \/ /\ s.trace[k].by = "dispatcher"
             /\ s.trace[k].ev \in Sends
             /\ s.trace[k].content = ErrorMessage

\* C24 (Spec): a dispatch ends unresolved only without a command and without
\* validate having been called, rejected only after an invalid validation
\* and without execute, executed only after execute was called; and the
\* handling of a failure (the dispatcher's error entry and its failure
\* notice) happens only in a dispatch whose execute was called.
C24_FailedOnlyFromExecute ==
    \A i \in Slots :
        LET s == ix[i] IN
        /\ s.exit = "unresolved" => (s.cmd = Undefined /\ ~Called(s, "validate"))
        /\ s.exit = "rejected" =>
              (Called(s, "validate") /\ ~s.validation.valid /\ ~Called(s, "execute"))
        /\ s.exit = "executed" => (s.validation.valid /\ Called(s, "execute"))
        /\ FailedHandling(s) => Called(s, "execute")

\* The failure was handled, error entry and notice, in a dispatch whose
\* validation was invalid and whose execute was never called
C24_FailedWithoutExecute ==
    \E i \in Slots :
        /\ ix[i].pc = "done"
        /\ FailedHandling(ix[i])
        /\ Called(ix[i], "validate")
        /\ ~Called(ix[i], "execute")

----------------------------------------------------------------------------
(* The log entries of the handler around execute *)

\* the positions of the handler's log entries of a level
DispatcherEntries(s, level) ==
    {k \in 1..Len(s.trace) : s.trace[k].by = "dispatcher" /\ s.trace[k].ev = level}

Carries(e, pair) == \E k \in 1..Len(e.context) : e.context[k] = pair

\* C26 (Spec): in a finished dispatch whose execute was called, either
\* execute returned, and the handler logged exactly one info entry carrying
\* the command name and the user and sent nothing itself; or execute raised,
\* and the handler logged exactly one error entry carrying the command name
\* and the user and, after it, sent exactly one message, the ephemeral
\* failure notice.
C26_EntriesCarryCommandAndUser ==
    \A i \in Slots :
        LET s == ix[i]
            infos == DispatcherEntries(s, "info")
            errors == DispatcherEntries(s, "error")
        IN (s.pc = "done" /\ Called(s, "execute")) =>
              IF s.exit = "executed"
              THEN /\ Cardinality(infos) = 1
                   /\ errors = {}
                   /\ \A k \in infos : /\ Carries(s.trace[k], CommandNameOf(s))
                                        /\ Carries(s.trace[k], UserOf(s))
                   /\ DispatcherSends(s) = {}
              ELSE /\ Cardinality(errors) = 1
                   /\ infos = {}
                   /\ \A k \in errors : /\ Carries(s.trace[k], CommandNameOf(s))
                                         /\ Carries(s.trace[k], UserOf(s))
                   /\ Cardinality(DispatcherSends(s)) = 1
                   /\ \A k \in DispatcherSends(s) :
                         /\ s.trace[k].content = ErrorMessage
                         /\ s.trace[k].ephemeral
                         /\ \A j \in errors : j < k

\* execute raised and the failure notice was sent after an error entry that
\* names the command and not the user
C26_ErrorEntryWithoutUser ==
    \E i \in Slots :
        LET s == ix[i] IN
        /\ s.pc = "done"
        /\ s.exit = "caught"
        /\ Called(s, "execute")
        /\ \E k \in DispatcherEntries(s, "error") :
              /\ Carries(s.trace[k], CommandNameOf(s))
              /\ ~Carries(s.trace[k], UserOf(s))

----------------------------------------------------------------------------
(* The developer IDs over the lifetime of the process *)

\* C27 (Spec): at every point of the running process getConfig() gives the
\* developer IDs that main read at startup, and the result of every validate
\* call is the one validate gives for its command and interaction with the
\* developer IDs of startup: the verdict on a caller does not depend on when
\* the command is invoked.
C27_DeveloperIdsFixed ==
    /\ getConfig(processEnv).developerIds = developerIds
    /\ \A i \in Slots :
          ix[i].validation # Undefined =>
              ix[i].validation = validate(ix[i].cmd, ix[i].req, developerIds)

\* /dev was validated and executed for a caller listed in DEVELOPER_IDS
C27_DeveloperAdmitted ==
    \E i \in Slots :
        /\ ix[i].pc = "done"
        /\ ix[i].exit = "executed"
        /\ ix[i].cmd.developerOnly
        /\ developerIds = <<ix[i].req.user>>

----------------------------------------------------------------------------
(* The registry after construction (SpecReadOnly) *)

\* C23 (SpecReadOnly): no step of the running bot, be it a getCommand,
\* getAllCommands, getRegistrationData, getCommandsByCategory or
\* getCommandHelp call or a step of the dispatch of an interaction (ignored,
\* unresolved, rejected, executed or failed), changes the command array or
\* the name map of the CommandManager.
C23_RegistryReadOnly == [][commands' = commands /\ commandMap' = commandMap]_vars

\* The registry was queried for its categories after a dispatch had failed
C23_QueriedAfterFailedDispatch ==
    /\ probe.op = "getCommandsByCategory"
    /\ \E i \in Slots : ix[i].pc = "done" /\ ix[i].exit = "caught"
    /\ commands = BotCommands
    /\ commandMap = loadCommands(BotCommands)

----------------------------------------------------------------------------
(* Interactions in flight together (SpecConcurrent) *)

\* The handler of interaction r run alone on the registry of BotCommands
\* with alice as the developer: where it stands after its first stretch
SoloStart(r) ==
    LET s == [Idle EXCEPT !.req = r]
        c == getCommandIn(loadCommands(BotCommands), r.commandName)
    IN IF r.type # "chatInput" THEN [s EXCEPT !.pc = "done", !.exit = "ignored"]
       ELSE IF c = Undefined THEN Unresolved(s)
       ELSE [s EXCEPT !.cmd = c,
                      !.trace = Append(@, Call("validate")),
                      !.validation = validate(c, r, <<"alice">>),
                      !.pc = "validate"]

\* and where one further stretch can take it, for either outcome of the
\* platform call it awaits
SoloSuccessors(s) ==
    CASE s.pc = "validate" ->
            IF ~s.validation.valid
            THEN {[s EXCEPT !.trace = Append(@, LogWith("warn", "Command validation failed",
                                <<CommandNameOf(s), <<"reason", s.validation.reason>>>>)),
                            !.pc = "rejectReply"]}
            ELSE LET script == Execute(s.cmd, s.req)
                     t == [s EXCEPT !.trace = Append(@, Call("execute")), !.script = script]
                 IN {IF script = <<>> THEN Returned(t) ELSE [t EXCEPT !.pc = "execute", !.ip = 1]}
      [] s.pc = "rejectReply" ->
            {LET t == Send(s, "dispatcher", "reply", TRUE, s.validation.reason, ok)
             IN IF ok /\ Accepts(s, "reply") THEN [t EXCEPT !.pc = "done", !.exit = "rejected"]
                ELSE Catch(t) : ok \in BOOLEAN}
      [] s.pc = "execute" ->
            LET o == s.script[s.ip]
                next(t) == IF s.ip = Len(s.script) THEN Returned(t)
                           ELSE [t EXCEPT !.ip = s.ip + 1]
            IN IF o.op = "throw" THEN {Catch(Rethrown(s, o))}
               ELSE IF o.op = "sleep" THEN {next(s)}
               ELSE {LET t == Send(s, "command", o.op, o.ephemeral, o.content, ok)
                     IN IF ok /\ Accepts(s, o.op) THEN next(t) ELSE Catch(Rethrown(t, o)) :
                     ok \in BOOLEAN}
      [] s.pc = "notice" ->
            {LET op == IF s.replied \/ s.deferred THEN "followUp" ELSE "reply"
                 t == Send(s, "dispatcher", op, TRUE, ErrorMessage, ok)
             IN [t EXCEPT !.pc = "done",
                          !.exit = IF ok /\ Accepts(s, op) THEN "caught" ELSE "escaped"] :
             ok \in BOOLEAN}
      [] OTHER -> {}

RECURSIVE SoloClosure(_)
SoloClosure(S) ==
    LET T == S \cup UNION {SoloSuccessors(s) : s \in S}
    IN IF T = S THEN S ELSE SoloClosure(T)

\* every point the handler of r can be at when r is the only interaction
SoloRuns == [r \in SampleRequests |-> SoloClosure({SoloStart(r)})]

\* C21 (SpecConcurrent): with several interactions in flight and their
\* handlers resumed in any order, the state of every handler (where it
\* stands, its validation result, everything sent and logged on its
\* interaction, its exit) is one that the handler reaches when its
\* interaction is dispatched alone; and what the handlers share, the
\* registry and process.env, stays as constructed.
C21_InterleavingIndependent ==
    /\ \A i \in ConcurrentSlots :
          ix[i].pc # "idle" => ix[i] \in SoloRuns[ix[i].req]
    /\ commands = BotCommands
    /\ commandMap = loadCommands(BotCommands)
    /\ getConfig(processEnv).developerIds = <<"alice">>

\* /ping has executed for bob while the handler of an /example that threw is
\* suspended at its failure notice
C21_TwoInFlight ==
    \E i, j \in ConcurrentSlots :
        /\ i # j
        /\ ix[i].pc = "done"
        /\ ix[i].exit = "executed"
        /\ ix[i].req.commandName = "ping"
        /\ ix[i].replied
        /\ ix[j].pc = "notice"
        /\ ~ix[j].replied

----------------------------------------------------------------------------
(* A stalled execute (SpecStalled) *)

\* C22 (SpecStalled): whatever the handler in the stalled slot does, be it
\* suspended in execute for ever, every other slot accepts an interaction
\* whenever it is free, and every interaction it has accepted reaches the end
\* of its handler.
C22_StallBlocksOnlyItself ==
    \A i \in ConcurrentSlots \ {StalledSlot} :
        /\ [](ix[i].pc = "idle" => ENABLED (\E r \in SampleRequests : InteractionCreate(i, r)))
        /\ (ix[i].pc # "idle") ~> (ix[i].pc = "done")

\* An interaction was executed to its end while the handler of the stalled
\* slot was suspended inside execute
C22_FinishedBesideStalled ==
    /\ ix[StalledSlot].pc = "execute"
    /\ \E i \in ConcurrentSlots \ {StalledSlot} :
          ix[i].pc = "done" /\ ix[i].exit = "executed"

====
